---- MODULE Spec2Model ----
(***************************************************************************)
(* A model of genieapi/GenieAPI.py: the GenieAPI client for the Genie      *)
(* music service.  The client is stateless apart from the files it writes  *)
(* under result/.  Each public operation is one action: the caller picks   *)
(* the arguments, the environment (the HTTP server, the file system) picks *)
(* the responses, and the action records what the call did: the requests   *)
(* it issued (net), what it printed (out), what it returned or raised      *)
(* (result) and what it left on disk (dirExists, files).                   *)
(*                                                                         *)
(* Text is a sequence of one-character strings, so that str.index,         *)
(* str.rindex, slicing, int() and the f-string formatting are computed     *)
(* character by character.                                                 *)
(***************************************************************************)
EXTENDS Integers, Sequences, FiniteSets, TLC

VARIABLES
    op,         \* the operation of the last call, "none" when the caller is idle
    arg,        \* its arguments and the responses the environment gave it
    result,     \* what it returned or raised
    net,        \* the HTTP requests it issued, in order
    out,        \* the messages it printed, in order
    dirExists,  \* whether the directory result/ exists
    files       \* the content of result/<name>.lrc per name, None when absent

vars == <<op, arg, result, net, out, dirExists, files>>

(***************************************************************************)
(* Bounds of the model.                                                    *)
(***************************************************************************)
MaxLimit == 6       \* limit arguments range over -1 .. MaxLimit
MaxRecords == 4     \* longest 'song' list of a search response
MaxEntries == 3     \* most members of a lyrics object the server sends
MaxFileEntries == 2 \* most members of a lyrics text handed to _make_lrc_file
MaxJunk == 4        \* longest arbitrary response body

SeqsUpTo(S, n) == UNION {[1 .. k -> S] : k \in 0 .. n}

(***************************************************************************)
(* Python values.                                                          *)
(***************************************************************************)
None == [tag |-> "None"]
Str(s) == [tag |-> "str", v |-> s]
List(l) == [tag |-> "list", v |-> l]
Raise(exc, msg) == [tag |-> "raise", exc |-> exc, msg |-> msg]
Returned(path) == [tag |-> "path", v |-> path]

(***************************************************************************)
(* int(str): surrounding blanks are stripped, an optional sign, then one   *)
(* or more decimal digits; anything else is a ValueError (ok = FALSE).     *)
(***************************************************************************)
DigitChars == <<"0", "1", "2", "3", "4", "5", "6", "7", "8", "9">>

IsDigit(c) == \E d \in 1 .. 10 : DigitChars[d] = c

DigitVal(c) == (CHOOSE d \in 1 .. 10 : DigitChars[d] = c) - 1

RECURSIVE DigitsVal(_)
DigitsVal(s) ==
    IF s = <<>> THEN 0
    ELSE 10 * DigitsVal(SubSeq(s, 1, Len(s) - 1)) + DigitVal(s[Len(s)])

RECURSIVE Strip(_)
Strip(s) ==
    IF s # <<>> /\ s[1] = " " THEN Strip(Tail(s))
    ELSE IF s # <<>> /\ s[Len(s)] = " " THEN Strip(SubSeq(s, 1, Len(s) - 1))
    ELSE s

PyInt(str) ==
    LET s == Strip(str)
        signed == s # <<>> /\ s[1] \in {"+", "-"}
        body == IF signed THEN Tail(s) ELSE s
        ok == body # <<>> /\ \A i \in 1 .. Len(body) : IsDigit(body[i])
    IN  IF ~ok THEN [ok |-> FALSE, val |-> 0]
        ELSE [ok |-> TRUE,
              val |-> IF s[1] = "-" THEN 0 - DigitsVal(body) ELSE DigitsVal(body)]

(***************************************************************************)
(* The f-string fields {n:02}: the decimal digits of n, zero-filled to a   *)
(* MINIMUM width of two characters; the sign of a negative n counts        *)
(* towards the width.  // and % are Python's floor division and modulo,    *)
(* which \div and % are for a positive divisor.                            *)
(***************************************************************************)
RECURSIVE ToDigits(_)
ToDigits(n) ==
    IF n < 10 THEN <<DigitChars[n + 1]>>
    ELSE ToDigits(n \div 10) \o <<DigitChars[(n % 10) + 1]>>

\* a variant of Format02: {n} without the 02
Format02Narrow(n) ==
    IF n < 0 THEN <<"-">> \o ToDigits(0 - n) ELSE ToDigits(n)

Format02(n) ==
    IF n < 0 THEN <<"-">> \o ToDigits(0 - n)
    ELSE IF n < 10 THEN <<"0">> \o ToDigits(n)
    ELSE ToDigits(n)

MinutesOf(t) == t \div 60000
SecondsOf(t) == (t % 60000) \div 1000
CentisOf(t) == (t % 1000) \div 10

\* f"[{int(time_ms) // 60000:02}:{(int(time_ms) % 60000) // 1000:02}.{(int(time_ms) % 1000) // 10:02}] {lyric}"
LrcLine(time_ms, lyric) ==
    LET t == PyInt(time_ms).val
    IN  <<"[">> \o Format02(MinutesOf(t)) \o <<":">> \o Format02(SecondsOf(t))
        \o <<".">> \o Format02(CentisOf(t)) \o <<"]", " ">> \o lyric

(***************************************************************************)
(* A dict is the sequence of its <<key, value>> items in insertion order,  *)
(* keys distinct.  d[k] = v on an existing key replaces the value in       *)
(* place.                                                                  *)
(***************************************************************************)
DictSet(d, k, v) ==
    IF \E i \in 1 .. Len(d) : d[i][1] = k
    THEN [i \in 1 .. Len(d) |-> IF d[i][1] = k THEN <<k, v>> ELSE d[i]]
    ELSE Append(d, <<k, v>>)

(***************************************************************************)
(* json.loads, on the subset of JSON the model's texts can spell: an       *)
(* object whose members are "string":"string", a string literal, or an     *)
(* unsigned integer.  No blanks, no escapes.  The whole text must be one   *)
(* value; anything else is a json.JSONDecodeError (ok = FALSE).  A         *)
(* repeated member name keeps the last value (dict semantics).             *)
(***************************************************************************)
DQ == "\""

JsonFail == [ok |-> FALSE, type |-> "", items |-> <<>>]

\* The string literal that starts at s[i]: its content and the position after it.
ScanString(s, i) ==
    IF i > Len(s) \/ s[i] # DQ \/ ~\E j \in (i + 1) .. Len(s) : s[j] = DQ
    THEN [ok |-> FALSE, v |-> <<>>, next |-> 0]
    ELSE LET j == CHOOSE j \in (i + 1) .. Len(s) :
                      s[j] = DQ /\ \A m \in (i + 1) .. (j - 1) : s[m] # DQ
         IN  [ok |-> TRUE, v |-> SubSeq(s, i + 1, j - 1), next |-> j + 1]

RECURSIVE ParseMembers(_, _, _)
ParseMembers(s, i, d) ==
    LET k == ScanString(s, i)
    IN  IF ~k.ok \/ k.next > Len(s) \/ s[k.next] # ":" THEN JsonFail
        ELSE LET v == ScanString(s, k.next + 1)
             IN  IF ~v.ok \/ v.next > Len(s) THEN JsonFail
                 ELSE IF s[v.next] = "," THEN ParseMembers(s, v.next + 1, DictSet(d, k.v, v.v))
                 ELSE IF s[v.next] = "}" /\ v.next = Len(s)
                      THEN [ok |-> TRUE, type |-> "object", items |-> DictSet(d, k.v, v.v)]
                 ELSE JsonFail

JsonLoads(s) ==
    IF s = <<>> THEN JsonFail
    ELSE IF s = <<"{", "}">> THEN [ok |-> TRUE, type |-> "object", items |-> <<>>]
    ELSE IF s[1] = "{" THEN ParseMembers(s, 2, <<>>)
    ELSE IF s[1] = DQ
         THEN IF ScanString(s, 1).ok /\ ScanString(s, 1).next = Len(s) + 1
              THEN [ok |-> TRUE, type |-> "string", items |-> <<>>]
              ELSE JsonFail
    ELSE IF (\A i \in 1 .. Len(s) : IsDigit(s[i])) /\ (Len(s) = 1 \/ s[1] # "0")
         THEN [ok |-> TRUE, type |-> "number", items |-> <<>>]
    ELSE JsonFail

(***************************************************************************)
(* str.index / str.rindex of a one-character needle, 1-based; 0 stands for *)
(* the ValueError they raise when the needle is absent.                    *)
(***************************************************************************)
Index(s, c) ==
    IF \E i \in 1 .. Len(s) : s[i] = c
    THEN CHOOSE i \in 1 .. Len(s) : s[i] = c /\ \A j \in 1 .. (i - 1) : s[j] # c
    ELSE 0

RIndex(s, c) ==
    IF \E i \in 1 .. Len(s) : s[i] = c
    THEN CHOOSE i \in 1 .. Len(s) : s[i] = c /\ \A j \in (i + 1) .. Len(s) : s[j] # c
    ELSE 0

\* a variant of LyricsJsonStr: index(")") in place of rindex(")")
LyricsJsonStrFirstClose(text) == SubSeq(text, Index(text, "(") + 1, Index(text, ")") - 1)

\* response.text[response.text.index("(") + 1:response.text.rindex(")")]
\* (an empty slice when the last ")" is not after the first "(").
LyricsJsonStr(text) == SubSeq(text, Index(text, "(") + 1, RIndex(text, ")") - 1)

(***************************************************************************)
(* sorted(items, key=lambda x: int(x[0])): a stable sort on int(key).      *)
(***************************************************************************)
RECURSIVE InsertByKey(_, _)
InsertByKey(sorted, e) ==
    IF sorted = <<>> THEN <<e>>
    ELSE IF PyInt(sorted[Len(sorted)][1]).val <= PyInt(e[1]).val THEN Append(sorted, e)
    ELSE Append(InsertByKey(SubSeq(sorted, 1, Len(sorted) - 1), e), sorted[Len(sorted)])

\* a variant of SortedByIntKey: the items as the dict iterates them
UnsortedItems(items) == items

RECURSIVE SortedByIntKey(_)
SortedByIntKey(items) ==
    IF items = <<>> THEN <<>>
    ELSE InsertByKey(SortedByIntKey(SubSeq(items, 1, Len(items) - 1)), items[Len(items)])

\* int(x[0]) raises ValueError for some item
BadKey(items) == \E i \in 1 .. Len(items) : ~PyInt(items[i][1]).ok

RECURSIVE Join(_, _)
Join(lines, sep) ==
    IF lines = <<>> THEN <<>>
    ELSE IF Len(lines) = 1 THEN lines[1]
    ELSE Join(SubSeq(lines, 1, Len(lines) - 1), sep) \o sep \o lines[Len(lines)]

NL == <<"\n">>

\* the list comprehension of get_lyrics
lyrics_lines(lyrics_data) ==
    LET s == SortedByIntKey(lyrics_data)
    IN  [i \in 1 .. Len(s) |-> LrcLine(s[i][1], s[i][2])]

\* the list comprehension of _make_lrc_file
lrc_lines(lyrics_data) ==
    LET s == SortedByIntKey(lyrics_data)
    IN  [i \in 1 .. Len(s) |-> LrcLine(s[i][1], s[i][2])]

(***************************************************************************)
(* get_lyrics(song_id).  resp is the server's answer to the one request:   *)
(* kind "conn_error" (requests.get raises), "http_error" (raise_for_status *)
(* raises) or "ok" with the body resp.text.                                *)
(***************************************************************************)
LyricsFetchFailed == [ret |-> None, out |-> <<"lyrics_fetch_failed">>]
LyricsBadFormat == [ret |-> None, out |-> <<"lyrics_bad_format">>]

GetLyricsOutcome(resp) ==
    IF resp.kind # "ok" THEN LyricsFetchFailed
    ELSE IF Index(resp.text, "(") = 0 \/ RIndex(resp.text, ")") = 0 THEN LyricsBadFormat
    ELSE LET lyrics_data == JsonLoads(LyricsJsonStr(resp.text))
         IN  IF ~lyrics_data.ok THEN LyricsBadFormat
             ELSE IF lyrics_data.type # "object"
                  THEN [ret |-> Raise("AttributeError", "items"), out |-> <<>>]
             ELSE IF BadKey(lyrics_data.items) THEN LyricsBadFormat
             ELSE [ret |-> Str(Join(lyrics_lines(lyrics_data.items), NL)), out |-> <<>>]

Request(base, param) == [base |-> base, param |-> param]

get_lyrics(song_id, resp) ==
    /\ op' = "get_lyrics"
    /\ arg' = [song_id |-> song_id, resp |-> resp]
    /\ net' = <<Request("LYRICS_BASE_URL", song_id)>>
    /\ \E o \in {GetLyricsOutcome(resp)} : result' = o.ret /\ out' = o.out
    /\ UNCHANGED <<dirExists, files>>

(***************************************************************************)
(* _make_lrc_file(file_name, lyrics_json).  The directory is created       *)
(* first; json.loads runs before the file is opened; open(path, "w")       *)
(* creates or truncates the file before the lines are rendered, and the    *)
(* with block closes it when rendering raises.                             *)
(***************************************************************************)
OutputPath(file_name) == <<"result", "/", file_name, ".lrc">>

MakeLrcOutcome(file_name, lyrics_json) ==
    LET lyrics_data == JsonLoads(lyrics_json)
        opened == [files EXCEPT ![file_name] = Str(<<>>)]
    IN  IF ~lyrics_data.ok
        THEN [ret |-> Raise("JSONDecodeError", "json.loads"), out |-> <<>>, files |-> files]
        ELSE IF lyrics_data.type # "object"
        THEN [ret |-> Raise("AttributeError", "items"), out |-> <<>>, files |-> opened]
        ELSE IF BadKey(lyrics_data.items)
        THEN [ret |-> Raise("ValueError", "int"), out |-> <<>>, files |-> opened]
        ELSE [ret |-> Returned(OutputPath(file_name)),
              out |-> <<"lrc_file_created">>,
              files |-> [files EXCEPT
                           ![file_name] = Str(Join(lrc_lines(lyrics_data.items), NL))]]

make_lrc_file(file_name, lyrics_json) ==
    /\ op' = "_make_lrc_file"
    /\ arg' = [file_name |-> file_name, lyrics_json |-> lyrics_json]
    /\ net' = <<>>
    /\ dirExists' = TRUE
    /\ \E o \in {MakeLrcOutcome(file_name, lyrics_json)} :
           result' = o.ret /\ out' = o.out /\ files' = o.files

(***************************************************************************)
(* _get_thumbnail_url(song_id).  th is the server's answer to the          *)
(* songInfo request: kind "conn_error", "http_error", or a page: "no_img"  *)
(* (select_one finds no element), "no_src" (an img without src) or "img"   *)
(* with the attribute th.src.  A URL is a sequence of tokens; "//" and     *)
(* "/dims/resize/Q_80,0" are tokens of their own.  Every exception is      *)
(* caught and printed.                                                     *)
(***************************************************************************)
ResizeToken == "/dims/resize/Q_80,0"

StartsWithSlashes(url) == url # <<>> /\ url[1] = "//"

RemoveResize(url) == SelectSeq(url, LAMBDA t : t # ResizeToken)

\* a variant of ThumbnailOutcome: '' in place of None when no URL is found
ThumbnailOutcomeEmptyString(th) ==
    IF th.kind \in {"conn_error", "http_error"}
    THEN [ret |-> Str(<<>>), out |-> <<"thumbnail_failed">>]
    ELSE IF th.kind = "img"
    THEN [ret |-> Str(RemoveResize(IF StartsWithSlashes(th.src)
                                   THEN <<"https:">> \o th.src ELSE th.src)),
          out |-> <<>>]
    ELSE [ret |-> Str(<<>>), out |-> <<>>]

ThumbnailOutcome(th) ==
    IF th.kind \in {"conn_error", "http_error"}
    THEN [ret |-> None, out |-> <<"thumbnail_failed">>]
    ELSE IF th.kind = "img"
    THEN [ret |-> Str(RemoveResize(IF StartsWithSlashes(th.src)
                                   THEN <<"https:">> \o th.src ELSE th.src)),
          out |-> <<>>]
    ELSE [ret |-> None, out |-> <<>>]

(***************************************************************************)
(* search_song(song_name, limit).  resp is the server's answer to the      *)
(* search request: kind "conn_error", "http_error", "not_json" (the body   *)
(* is not JSON and response.json() raises requests' JSONDecodeError, a     *)
(* RequestException), "not_json_legacy" (the same with a requests release  *)
(* that raises a plain ValueError), "non_object" (JSON, but not an object: *)
(* data.get does not exist), or "object" with the dict resp.data, whose    *)
(* 'song' list, when present, is resp.data.song.  A search record is a     *)
(* dict, here a record whose DOMAIN is the fields it carries.  thumbs[i]   *)
(* is the server's answer to the i-th songInfo request.                    *)
(***************************************************************************)
\* a variant of LimitOk: 0 <= limit <= 4
LimitOkFromZero(limit) == 0 <= limit /\ limit <= 4

\* 1 <= limit <= 4
LimitOk(limit) == 1 <= limit /\ limit <= 4

Min(a, b) == IF a < b THEN a ELSE b

ShapeError == Raise("GenieScraperError", "unexpected_response_format")
RequestError == Raise("GenieScraperError", "search_request_failed")

\* data.get('song', [])
SongOrEmpty(data) == IF "song" \in DOMAIN data THEN data.song ELSE <<>>

\* a variant of LoopCount: range(len(data.get('song', [])))
LoopCountUnbounded(limit, data) == Len(SongOrEmpty(data))

\* range(min(limit, len(data.get('song', []))))
LoopCount(limit, data) == Min(limit, Len(SongOrEmpty(data)))

\* song.get('field1', '')
Field1(song) == IF "field1" \in DOMAIN song THEN song.field1 ELSE ""

\* a variant of SearchLoop: a record without id is skipped (song.get('id'), continue)
RECURSIVE SearchLoopSkipping(_, _, _, _, _)
SearchLoopSkipping(data, n, i, thumbs, acc) ==
    IF i > n THEN [ret |-> List(acc.songs), net |-> acc.net, out |-> acc.out]
    ELSE LET song == data.song[i]
         IN  IF "id" \notin DOMAIN song
             THEN SearchLoopSkipping(data, n, i + 1, thumbs, acc)
             ELSE LET th == ThumbnailOutcome(thumbs[i])
                      net2 == Append(acc.net, Request("SONG_INFO_BASE_URL", song.id))
                      out2 == acc.out \o th.out
                  IN  IF "word" \notin DOMAIN song
                      THEN [ret |-> ShapeError, net |-> net2, out |-> out2]
                      ELSE SearchLoopSkipping(data, n, i + 1, thumbs,
                               [songs |-> Append(acc.songs,
                                                 <<song.word, song.id, Field1(song), th.ret>>),
                                net |-> net2, out |-> out2])

\* the body of the for loop from index i on; acc holds songs, net and out so far
RECURSIVE SearchLoop(_, _, _, _, _)
SearchLoop(data, n, i, thumbs, acc) ==
    IF i > n THEN [ret |-> List(acc.songs), net |-> acc.net, out |-> acc.out]
    ELSE LET song == data.song[i]
         IN  IF "id" \notin DOMAIN song
             THEN [ret |-> ShapeError, net |-> acc.net, out |-> acc.out]
             ELSE LET th == ThumbnailOutcome(thumbs[i])
                      net2 == Append(acc.net, Request("SONG_INFO_BASE_URL", song.id))
                      out2 == acc.out \o th.out
                  IN  IF "word" \notin DOMAIN song
                      THEN [ret |-> ShapeError, net |-> net2, out |-> out2]
                      ELSE SearchLoop(data, n, i + 1, thumbs,
                               [songs |-> Append(acc.songs,
                                                 <<song.word, song.id, Field1(song), th.ret>>),
                                net |-> net2, out |-> out2])

\* a variant of SearchOutcome: data['song'] in place of data.get('song', [])
SearchOutcomeStrict(song_name, limit, resp, thumbs) ==
    LET sent == <<Request("SEARCH_BASE_URL", song_name)>>
    IN  IF ~LimitOk(limit)
        THEN [ret |-> Raise("ValueError", "limit_range"), net |-> <<>>, out |-> <<>>]
        ELSE IF resp.kind \in {"conn_error", "http_error", "not_json"}
        THEN [ret |-> RequestError, net |-> sent, out |-> <<>>]
        ELSE IF resp.kind = "not_json_legacy"
        THEN [ret |-> Raise("JSONDecodeError", "response.json"), net |-> sent, out |-> <<>>]
        ELSE IF resp.kind = "non_object"
        THEN [ret |-> Raise("AttributeError", "get"), net |-> sent, out |-> <<>>]
        ELSE IF "song" \notin DOMAIN resp.data
        THEN [ret |-> ShapeError, net |-> sent, out |-> <<>>]
        ELSE SearchLoop(resp.data, LoopCount(limit, resp.data), 1, thumbs,
                        [songs |-> <<>>, net |-> sent, out |-> <<>>])

SearchOutcome(song_name, limit, resp, thumbs) ==
    LET sent == <<Request("SEARCH_BASE_URL", song_name)>>
    IN  IF ~LimitOk(limit)
        THEN [ret |-> Raise("ValueError", "limit_range"), net |-> <<>>, out |-> <<>>]
        ELSE IF resp.kind \in {"conn_error", "http_error", "not_json"}
        THEN [ret |-> RequestError, net |-> sent, out |-> <<>>]
        ELSE IF resp.kind = "not_json_legacy"
        THEN [ret |-> Raise("JSONDecodeError", "response.json"), net |-> sent, out |-> <<>>]
        ELSE IF resp.kind = "non_object"
        THEN [ret |-> Raise("AttributeError", "get"), net |-> sent, out |-> <<>>]
        ELSE SearchLoop(resp.data, LoopCount(limit, resp.data), 1, thumbs,
                        [songs |-> <<>>, net |-> sent, out |-> <<>>])

search_song(song_name, limit, resp, thumbs) ==
    /\ op' = "search_song"
    /\ arg' = [song_name |-> song_name, limit |-> limit, resp |-> resp, thumbs |-> thumbs]
    /\ \E o \in {SearchOutcome(song_name, limit, resp, thumbs)} :
           result' = o.ret /\ net' = o.net /\ out' = o.out
    /\ UNCHANGED <<dirExists, files>>

(***************************************************************************)
(* The caller takes the result of the call and is idle again.              *)
(***************************************************************************)
Return ==
    /\ op # "none"
    /\ op' = "none"
    /\ arg' = None
    /\ result' = None
    /\ net' = <<>>
    /\ out' = <<>>
    /\ UNCHANGED <<dirExists, files>>

(***************************************************************************)
(* The inputs the model draws from.                                        *)
(***************************************************************************)
Limits == (0 - 1) .. MaxLimit

SongNames == {"query"}

SongIds == {"11", "22"}

RecordPool ==
    { [id |-> "11", word |-> "A", field1 |-> "Artist A - Album B"],
      [id |-> "22", word |-> "B"],
      [word |-> "C", field1 |-> "SoloArtist"],
      [id |-> "33", field1 |-> "SoloArtist"] }

SongLists == SeqsUpTo(RecordPool, MaxRecords)

Failure(kind) == [kind |-> kind]

SearchResponses ==
    {Failure(k) : k \in {"conn_error", "http_error", "not_json", "not_json_legacy",
                          "non_object"}}
    \cup {[kind |-> "object", data |-> [artist |-> <<>>]]}
    \cup {[kind |-> "object", data |-> [song |-> l]] : l \in SongLists}

ThumbResponses ==
    {Failure(k) : k \in {"conn_error", "http_error", "no_img", "no_src"}}
    \cup {[kind |-> "img",
           src |-> <<"//", "image.genie.co.kr", "/Y/IMAGE/1.JPG", ResizeToken>>]}

\* how many songInfo requests the call can issue
Lookups(limit, resp) ==
    IF LimitOk(limit) /\ resp.kind = "object" THEN LoopCount(limit, resp.data) ELSE 0

Keys ==
    { <<"0">>, <<"0", "0">>, <<"5", "0", "0">>, <<"1", "5", "0", "0">>,
      <<"5", "9", "9", "9", "9", "9", "9">>, <<"6", "0", "0", "0", "0", "0", "0">>,
      <<"-", "5">>, <<"a", "b">> }

\* every key with the lyric "a", and one lyric with parentheses in it
Entries == (Keys \X {<<"a">>}) \cup { << <<"0", "0">>, <<"(", "b", ")">> >> }

Payloads == SeqsUpTo(Entries, MaxEntries)

\* the server's serialisation of a list of entries as a JSON object
RECURSIVE EncodeMembers(_)
EncodeMembers(p) ==
    IF p = <<>> THEN <<>>
    ELSE (IF Len(p) = 1 THEN <<>> ELSE EncodeMembers(SubSeq(p, 1, Len(p) - 1)) \o <<",">>)
         \o <<DQ>> \o p[Len(p)][1] \o <<DQ, ":", DQ>> \o p[Len(p)][2] \o <<DQ>>

Encode(p) == <<"{">> \o EncodeMembers(p) \o <<"}">>

\* the JSONP wrapper of the lyrics endpoint
Wrap(json) == <<"c", "b", "(">> \o json \o <<")", ";">>

JunkTexts == SeqsUpTo({"(", ")", "{", "}", "7", "x"}, MaxJunk)

LyricsBodies ==
    JunkTexts
    \cup {Wrap(Encode(p)) : p \in Payloads}
    \cup {Encode(p) : p \in SeqsUpTo(Entries, 1)}

LyricsResponses ==
    {[kind |-> k, text |-> <<>>] : k \in {"conn_error", "http_error"}}
    \cup {[kind |-> "ok", text |-> t] : t \in LyricsBodies}

FileNames == {"11", "22"}

FileEntries ==
    { << <<"5", "0", "0">>, <<"w", "o", "r", "l", "d">> >>,
      << <<"1", "5", "0", "0">>, <<"h", "e", "l", "l", "o">> >>,
      << <<"0">>, <<"a">> >>,
      << <<"0", "0">>, <<"b">> >>,
      << <<"a", "b">>, <<"a">> >> }

FileTexts ==
    {Encode(p) : p \in SeqsUpTo(FileEntries, MaxFileEntries)}
    \cup { <<>>, <<"7">>, <<"{">>, <<"x">> }

(***************************************************************************)
(* The state machine.                                                      *)
(***************************************************************************)
Init ==
    /\ op = "none"
    /\ arg = None
    /\ result = None
    /\ net = <<>>
    /\ out = <<>>
    /\ dirExists = FALSE
    /\ files = [n \in FileNames |-> None]

\* A call starts when the caller is idle.
SearchSong ==
    /\ op = "none"
    /\ \E song_name \in SongNames, limit \in Limits, resp \in SearchResponses :
           \E thumbs \in [1 .. Lookups(limit, resp) -> ThumbResponses] :
               search_song(song_name, limit, resp, thumbs)

GetLyrics ==
    /\ op = "none"
    /\ \E song_id \in SongIds, resp \in LyricsResponses : get_lyrics(song_id, resp)

MakeLrcFile ==
    /\ op = "none"
    /\ \E file_name \in FileNames, lyrics_json \in FileTexts :
           make_lrc_file(file_name, lyrics_json)

\* The caller's pipeline: the lyrics it fetches are the texts it then writes.
GetLyricsOfTexts ==
    /\ op = "none"
    /\ \E song_id \in FileNames, lyrics_json \in FileTexts :
           get_lyrics(song_id, [kind |-> "ok", text |-> Wrap(lyrics_json)])

Next == SearchSong \/ GetLyrics \/ GetLyricsOfTexts \/ MakeLrcFile \/ Return

Spec == Init /\ [][Next]_vars

(***************************************************************************)
(* Spec is the whole client.  search_song and get_lyrics neither read nor  *)
(* write dirExists and files, so what a call does is a behaviour of one of *)
(* the three specifications below, each a caller that uses one group of    *)
(* operations.                                                             *)
(***************************************************************************)
NextSearch == SearchSong \/ Return
SpecSearch == Init /\ [][NextSearch]_vars

NextLyrics == GetLyrics \/ Return
SpecLyrics == Init /\ [][NextLyrics]_vars

NextFile == MakeLrcFile \/ GetLyricsOfTexts \/ Return
SpecFile == Init /\ [][NextFile]_vars

(***************************************************************************)
(* Properties of search_song.                                              *)
(***************************************************************************)
IsSearch == op = "search_song"

\* the search request was answered with a dict that carries a 'song' list
HasSongList == arg.resp.kind = "object" /\ "song" \in DOMAIN arg.resp.data

Upstream == arg.resp.data.song

\* how many records the call is asked to look at
Wanted == IF arg.limit < Len(Upstream) THEN arg.limit ELSE Len(Upstream)

Complete(rec) == {"id", "word"} \subseteq DOMAIN rec

\* C1: a limit outside 1..4 makes search_song raise the ValueError of the
\* limit check with no request issued and nothing printed; a limit in 1..4
\* never raises it.
C1_LimitCheckedFirst ==
    IsSearch =>
        IF arg.limit \in 1 .. 4
        THEN result # Raise("ValueError", "limit_range")
        ELSE result = Raise("ValueError", "limit_range") /\ net = <<>> /\ out = <<>>

C1_Witness ==
    /\ IsSearch
    /\ arg.limit = 5
    /\ HasSongList
    /\ Len(Upstream) = 2
    /\ result = Raise("ValueError", "limit_range")
    /\ net = <<>>

\* C2: with a limit in 1..4 and a 'song' list whose records all carry id and
\* word, search_song returns min(limit, len) summaries, the i-th with the
\* title and the id of the i-th record, whatever the thumbnail lookups did.
C2_FirstLimitInOrder ==
    (/\ IsSearch
     /\ arg.limit \in 1 .. 4
     /\ HasSongList
     /\ \A i \in 1 .. Len(Upstream) : Complete(Upstream[i]))
    => /\ result.tag = "list"
       /\ Len(result.v) = Wanted
       /\ \A i \in 1 .. Wanted :
              result.v[i][1] = Upstream[i].word /\ result.v[i][2] = Upstream[i].id

C2_Witness ==
    /\ IsSearch
    /\ arg.limit = 2
    /\ HasSongList
    /\ Len(Upstream) = 3
    /\ \A i \in 1 .. 3 : Complete(Upstream[i])
    /\ Upstream[1].id = "22" /\ Upstream[2].id = "11" /\ Upstream[3].id = "22"
    /\ arg.thumbs[1].kind = "http_error" /\ arg.thumbs[2].kind = "img"
    /\ result.tag = "list"
    /\ Len(result.v) = 2

\* C3: when one of the first min(limit, len) records has no id, search_song
\* raises the unexpected-response-format error and returns no list; records
\* after the first limit are not looked at: when the first min(limit, len)
\* records are complete the call returns a list whatever follows them.
C3_MissingIdRaises ==
    (IsSearch /\ arg.limit \in 1 .. 4 /\ HasSongList)
    => /\ (\E i \in 1 .. Wanted : "id" \notin DOMAIN Upstream[i])
              => result = Raise("GenieScraperError", "unexpected_response_format")
       /\ (\A i \in 1 .. Wanted : Complete(Upstream[i]))
              => result.tag = "list" /\ Len(result.v) = Wanted
       /\ result.tag = "list"
              => \A i \in 1 .. Len(result.v) : result.v[i][2] \in {"11", "22", "33"}

C3_Witness ==
    /\ IsSearch
    /\ arg.limit = 2
    /\ HasSongList
    /\ Len(Upstream) = 3
    /\ Complete(Upstream[1])
    /\ "id" \notin DOMAIN Upstream[2]
    /\ arg.thumbs[1].kind = "img"
    /\ result = Raise("GenieScraperError", "unexpected_response_format")
    /\ Len(net) = 2

ThumbFailures == {"conn_error", "http_error", "no_img", "no_src"}

ExtraInfo(rec) == IF "field1" \in DOMAIN rec THEN rec.field1 ELSE ""

C5_ThumbnailFailureIsAbsent ==
    (/\ IsSearch
     /\ arg.limit \in 1 .. 4
     /\ HasSongList
     /\ \A i \in 1 .. Wanted : Complete(Upstream[i]))
    => /\ result.tag = "list"
       /\ Len(result.v) = Wanted
       /\ \A i \in 1 .. Wanted :
              /\ result.v[i][1] = Upstream[i].word
              /\ result.v[i][2] = Upstream[i].id
              /\ result.v[i][3] = ExtraInfo(Upstream[i])
              /\ arg.thumbs[i].kind \in ThumbFailures => result.v[i][4] = None
              /\ arg.thumbs[i].kind = "img" =>
                     result.v[i][4] =
                         Str(<<"https:", "//", "image.genie.co.kr", "/Y/IMAGE/1.JPG">>)

C5_Witness ==
    /\ IsSearch
    /\ arg.limit = 3
    /\ HasSongList
    /\ Len(Upstream) = 3
    /\ arg.thumbs[1].kind = "conn_error"
    /\ arg.thumbs[2].kind = "img"
    /\ arg.thumbs[3].kind = "no_src"
    /\ result.tag = "list"
    /\ Len(result.v) = 3
    /\ result.v[1][4] = None
    /\ result.v[2][4] # None
    /\ out = <<"thumbnail_failed">>

(***************************************************************************)
(* Properties of get_lyrics and _make_lrc_file.                            *)
(***************************************************************************)
IsLyrics == op = "get_lyrics"

IsMakeLrc == op = "_make_lrc_file"

MalformedLyrics == result = None /\ out = <<"lyrics_bad_format">>

\* some "(" comes before some ")"
Wrapped(text) ==
    \E i, j \in 1 .. Len(text) : i < j /\ text[i] = "(" /\ text[j] = ")"

\* the text strictly between the first "(" and the last ")"
Enclosed(text) ==
    LET first == CHOOSE i \in 1 .. Len(text) :
                     text[i] = "(" /\ \A k \in 1 .. (i - 1) : text[k] # "("
        last == CHOOSE j \in 1 .. Len(text) :
                    text[j] = ")" /\ \A k \in (j + 1) .. Len(text) : text[k] # ")"
    IN  SubSeq(text, first + 1, last - 1)

\* a key that spells a non-negative integer
NonNegKey(k) == k # <<>> /\ \A i \in 1 .. Len(k) : IsDigit(k[i])

ValidPayload(P) == \A i \in 1 .. Len(P) : NonNegKey(P[i][1])

Offset(entry) == DigitsVal(entry[1])

Perms(n) == {f \in [1 .. n -> 1 .. n] : \A i, j \in 1 .. n : i # j => f[i] # f[j]}

\* perm lists the entries of P by ascending offset, equal offsets in input order
StableAscending(P, perm) ==
    \A i, j \in 1 .. Len(P) :
        i < j => \/ Offset(P[perm[i]]) < Offset(P[perm[j]])
                 \/ Offset(P[perm[i]]) = Offset(P[perm[j]]) /\ perm[i] < perm[j]

Newlines(text) == Cardinality({i \in 1 .. Len(text) : text[i] = "\n"})

\* text is the lines of the entries of P, one per entry, stably sorted by
\* offset, with one newline between two lines and none at the end
IsTimedTextOf(text, P) ==
    /\ \E perm \in Perms(Len(P)) :
           /\ StableAscending(P, perm)
           /\ text = Join([i \in 1 .. Len(P) |-> LrcLine(P[perm[i]][1], P[perm[i]][2])], NL)
    /\ IF P = <<>> THEN text = <<>>
       ELSE Newlines(text) = Len(P) - 1 /\ text[Len(text)] # "\n"

SpecExample == << << <<"1", "5", "0", "0">>, <<"h", "e", "l", "l", "o">> >>,
                  << <<"5", "0", "0">>, <<"w", "o", "r", "l", "d">> >> >>

SpecExampleText ==
    <<"[", "0", "0", ":", "0", "0", ".", "5", "0", "]", " ", "w", "o", "r", "l", "d", "\n",
      "[", "0", "0", ":", "0", "1", ".", "5", "0", "]", " ", "h", "e", "l", "l", "o">>

\* C6: for a payload whose keys all spell non-negative integers, the text
\* get_lyrics returns and the text _make_lrc_file writes hold one line per
\* entry, newline-joined without a trailing newline, the entries stably
\* sorted by ascending numeric offset; {"1500": "hello", "500": "world"}
\* gives "[00:00.50] world\n[00:01.50] hello".
C6_StablySortedLines ==
    /\ (IsLyrics /\ arg.resp.kind = "ok" /\ Wrapped(arg.resp.text)) =>
           LET d == JsonLoads(Enclosed(arg.resp.text))
           IN  (d.ok /\ d.type = "object" /\ ValidPayload(d.items)) =>
                   /\ result.tag = "str"
                   /\ IsTimedTextOf(result.v, d.items)
                   /\ d.items = SpecExample => result.v = SpecExampleText
    /\ IsMakeLrc =>
           LET d == JsonLoads(arg.lyrics_json)
           IN  (d.ok /\ d.type = "object" /\ ValidPayload(d.items)) =>
                   /\ result.tag = "path"
                   /\ files[arg.file_name].tag = "str"
                   /\ IsTimedTextOf(files[arg.file_name].v, d.items)
                   /\ d.items = SpecExample => files[arg.file_name].v = SpecExampleText

C6_Witness ==
    /\ IsMakeLrc
    /\ arg.lyrics_json = Encode(<< << <<"5", "0", "0">>, <<"w", "o", "r", "l", "d">> >>,
                                   << <<"0", "0">>, <<"b">> >> >>)
    /\ files[arg.file_name] =
           Str(<<"[", "0", "0", ":", "0", "0", ".", "0", "0", "]", " ", "b", "\n",
                 "[", "0", "0", ":", "0", "0", ".", "5", "0", "]", " ", "w", "o", "r", "l", "d">>)

\* the lines of a newline-joined text
RECURSIVE SplitLines(_)
SplitLines(text) ==
    IF \A i \in 1 .. Len(text) : text[i] # "\n" THEN <<text>>
    ELSE LET n == CHOOSE i \in 1 .. Len(text) :
                      text[i] = "\n" /\ \A k \in 1 .. (i - 1) : text[k] # "\n"
         IN  <<SubSeq(text, 1, n - 1)>> \o SplitLines(SubSeq(text, n + 1, Len(text)))

AllDigits(s) == \A i \in 1 .. Len(s) : IsDigit(s[i])

\* line is "[" MM ":" SS "." cc "] " lyric, the fields decimal numbers with
\* the values of offset t, SS and cc two characters wide, MM width characters
TagOf(line, t, lyric, width) ==
    LET c == width + 2
    IN  /\ Len(line) = width + 9 + Len(lyric)
        /\ line[1] = "["
        /\ AllDigits(SubSeq(line, 2, c - 1))
        /\ DigitsVal(SubSeq(line, 2, c - 1)) = t \div 60000
        /\ line[c] = ":"
        /\ AllDigits(SubSeq(line, c + 1, c + 2))
        /\ DigitsVal(SubSeq(line, c + 1, c + 2)) = (t % 60000) \div 1000
        /\ (t % 60000) \div 1000 \in 0 .. 59
        /\ line[c + 3] = "."
        /\ AllDigits(SubSeq(line, c + 4, c + 5))
        /\ DigitsVal(SubSeq(line, c + 4, c + 5)) = (t % 1000) \div 10
        /\ (t % 1000) \div 10 \in 0 .. 99
        /\ line[c + 6] = "]"
        /\ line[c + 7] = " "
        /\ SubSeq(line, c + 8, Len(line)) = lyric

\* the payload of a get_lyrics call that returned text
ReturnedPayload == JsonLoads(Enclosed(arg.resp.text)).items

\* C7 as claimed: every entry with an offset t >= 0 is rendered as a line
\* whose three fields are exactly two digits wide.
C7_TwoDigitFields ==
    (IsLyrics /\ result.tag = "str") =>
        LET P == ReturnedPayload
            lines == SplitLines(result.v)
        IN  \A i \in 1 .. Len(P) :
                NonNegKey(P[i][1]) =>
                    \E n \in 1 .. Len(lines) : TagOf(lines[n], Offset(P[i]), P[i][2], 2)

\* the width of the minutes field: two characters up to 99 minutes, the
\* digits of the number beyond
MinutesWidth(t) == IF t < 6000000 THEN 2 ELSE Len(ToDigits(t \div 60000))

\* C7 amended: the seconds and centiseconds fields are exactly two digits
\* wide; the minutes field is two digits wide for t < 6000000 and as wide as
\* the number (three digits or more, no padding) from t = 6000000 on.
C7_MinutesAtLeastTwoDigits ==
    (IsLyrics /\ result.tag = "str") =>
        LET P == ReturnedPayload
            lines == SplitLines(result.v)
        IN  \A i \in 1 .. Len(P) :
                NonNegKey(P[i][1]) =>
                    \E n \in 1 .. Len(lines) :
                        TagOf(lines[n], Offset(P[i]), P[i][2], MinutesWidth(Offset(P[i])))

C7_Witness ==
    /\ IsLyrics
    /\ result = Str(<<"[", "1", "0", "0", ":", "0", "0", ".", "0", "0", "]", " ", "a", "\n",
                      "[", "9", "9", ":", "5", "9", ".", "9", "9", "]", " ", "a">>)
       \/ result = Str(<<"[", "9", "9", ":", "5", "9", ".", "9", "9", "]", " ", "a", "\n",
                         "[", "1", "0", "0", ":", "0", "0", ".", "0", "0", "]", " ", "a">>)

\* C8: a payload with a key that does not spell a non-negative integer makes
\* get_lyrics end in the bad-format outcome: None, and no text.
C8_BadKeyFailsClosed ==
    (IsLyrics /\ arg.resp.kind = "ok" /\ Wrapped(arg.resp.text)) =>
        LET d == JsonLoads(Enclosed(arg.resp.text))
        IN  (d.ok /\ d.type = "object" /\ ~ValidPayload(d.items)) => MalformedLyrics

\* C9: get_lyrics parses the text strictly between the first "(" and the
\* last ")": a body without a "(" before a ")" or with enclosed text that is
\* not JSON ends in the bad-format outcome (None, never a text), and a body
\* whose enclosed text is an object with integer keys gives the text of that
\* object.
C9_UnwrapsBetweenParens ==
    (IsLyrics /\ arg.resp.kind = "ok") =>
        IF ~Wrapped(arg.resp.text) \/ ~JsonLoads(Enclosed(arg.resp.text)).ok
        THEN MalformedLyrics
        ELSE LET d == JsonLoads(Enclosed(arg.resp.text))
             IN  (d.type = "object" /\ ValidPayload(d.items)) =>
                     result = Str(Join(lyrics_lines(d.items), NL))

C9_Witness ==
    /\ IsLyrics
    /\ arg.resp.kind = "ok"
    /\ arg.resp.text = <<")", "7", "(">>
    /\ MalformedLyrics

\* C10: _make_lrc_file changes result/<file_name>.lrc only when the text was
\* rendered: a call that fails on invalid JSON text or on a key that is no
\* integer leaves every file as it was (no file emptied, no empty file
\* created), and a call that returns leaves the rendered text in the file.
C10_FileChangesOnlyOnSuccess ==
    [][ op' = "_make_lrc_file" =>
            /\ result' \in {Raise("JSONDecodeError", "json.loads"), Raise("ValueError", "int")}
                   => files' = files
            /\ result'.tag = "path"
                   => files'[arg'.file_name] =
                          Str(Join(lrc_lines(JsonLoads(arg'.lyrics_json).items), NL)) ]_vars

====
